---- MODULE Spec2Model ----
(***************************************************************************)
(* Model of conans/client/cmake_server.py: the CMakeServer client that     *)
(* drives "cmake -E server" over its stdin/stdout pipes.                   *)
(*                                                                         *)
(* The client is single threaded.  Each blocking readline of the           *)
(* subprocess's stdout is one step of the model; everything the code does  *)
(* between two blocking points is part of the same step.  The subprocess   *)
(* is the environment: it writes framed messages or stray lines to its     *)
(* stdout and may exit at any moment.                                      *)
(***************************************************************************)
EXTENDS Integers, Sequences, FiniteSets, TLC

(* ------------------------------ bounds --------------------------------- *)
MaxCalls == 2        \* calls of __enter__, configure and _issue_command_and_await_reply
MaxNoise == 2        \* writes of the subprocesses other than greeting and terminal replies
MaxVersions == 2     \* entries in a greeting's supportedProtocolVersions
MaxMinor == 1        \* largest minor version a greeting offers
MaxWritten == 2      \* commands written in the framer's round trip

(* ----------------------------- constants ------------------------------- *)
None == 0                                   \* self._server = None
Header == [kind |-> "header"]               \* [== "CMake Server" ==[\n
Footer == [kind |-> "footer"]               \* ]== "CMake Server" ==]\n
Blank == [kind |-> "blank"]                 \* "\n"
Junk == [kind |-> "junk"]                   \* any other line that is not JSON
NoObject == [type |-> "<none>"]             \* result = None
NoDefs == <<"<None>">>                      \* defs=None

(* --------------------------- JSON conversion --------------------------- *)
\* Keys of the objects exchanged, in the order a document lists them.
KeyOrder == <<"type", "cookie", "protocolVersion", "supportedProtocolVersions",
              "sourceDirectory", "buildDirectory", "generator", "toolset",
              "platform", "currentGenerator", "cacheArguments", "message",
              "errorMessage">>

RECURSIVE DumpKeys(_, _)
DumpKeys(obj, i) ==
    IF i > Len(KeyOrder) THEN <<>>
    ELSE IF KeyOrder[i] \in DOMAIN obj
         THEN <<[key |-> KeyOrder[i], value |-> obj[KeyOrder[i]]]>> \o DumpKeys(obj, i + 1)
         ELSE DumpKeys(obj, i + 1)

\* json.dumps(command) (a mutation: only the first member is written).
dumps_first_member(obj) == [kind |-> "json", members |-> SubSeq(DumpKeys(obj, 1), 1, 1)]

\* json.dumps(command): one line of text, the members of the object.
dumps(obj) == [kind |-> "json", members |-> DumpKeys(obj, 1)]

\* The text accumulated between the sentinels is one JSON document iff,
\* whitespace (blank lines) aside, it is exactly one JSON line.
Documents(object_string) == SelectSeq(object_string, LAMBDA l : l.kind /= "blank")

IsJson(object_string) ==
    /\ Len(Documents(object_string)) = 1
    /\ Documents(object_string)[1].kind = "json"

\* json.loads(object_string), defined when IsJson(object_string): the object
\* whose keys are the document's member names (a repeated name keeps its
\* last value).
loads(object_string) ==
    LET members == Documents(object_string)[1].members
        last(k) == CHOOSE j \in 1..Len(members) :
                      /\ members[j].key = k
                      /\ \A h \in (j + 1)..Len(members) : members[h].key /= k
    IN  [k \in {members[i].key : i \in 1..Len(members)} |-> members[last(k)].value]

(* ------------------------------- state --------------------------------- *)
VARIABLES
    procs,          \* the subprocesses spawned so far; a pid is an index
    server,         \* self._server: None or the pid of the Popen handle
    returncode,     \* self._server.returncode
    greeted,        \* the subprocess of self._server has written to its stdout
    stdin,          \* the lines the current (or last) top-level call wrote to
                    \* self._server.stdin
    stdout,         \* lines the subprocess wrote and the client has not read
    pc,             \* where the client stands (see the actions)
    op,             \* the top-level call in progress, or the last one
    stage,          \* the command that call is at
    cmd,            \* command of _issue_command_and_await_reply
    required,       \* its required argument
    cookie,         \* its cookie
    nextCookie,     \* uuid.uuid4(): the next fresh cookie
    object_string,  \* lines accumulated by _get_next_object
    result,         \* the object read; the value a call returned
    output,         \* the lines the current (or last) top-level call wrote to
                    \* self._conanfile.output
    exc,            \* how the last top-level call ended
    scope,          \* the caller's with statement
    ncalls,         \* calls made so far that spawn or write
    noise,          \* non-conforming writes the subprocesses made so far
    outstanding,    \* cookies of the commands written to self._server.stdin
                    \* whose terminal message no call has consumed
    sent            \* commands handed to _issue_command on their own and not
                    \* yet read back (the framer's round trip)

vars == <<procs, server, returncode, greeted, stdin, stdout, pc, op, stage, cmd,
          required, cookie, nextCookie, object_string, result, output, exc,
          scope, ncalls, noise, outstanding, sent>>

\* What belongs to the client, as seen from the subprocess.
client == <<server, returncode, stdin, pc, op, stage, cmd, required, cookie,
            nextCookie, object_string, result, output, exc, scope, ncalls,
            outstanding, sent>>

\* What a step inside a call leaves alone, the pipes and the process aside.
session == <<server, greeted, op, ncalls, noise, sent>>
world == <<session, outstanding>>

Init ==
    /\ procs = <<>>
    /\ server = None                       \* line 36
    /\ returncode = "None"
    /\ greeted = FALSE
    /\ stdin = <<>>
    /\ stdout = <<>>
    /\ pc = "idle"
    /\ op = "none"
    /\ stage = "none"
    /\ cmd = NoObject
    /\ required = FALSE
    /\ cookie = 0
    /\ nextCookie = 1
    /\ object_string = <<>>
    /\ result = NoObject
    /\ output = <<>>
    /\ exc = "none"
    /\ scope = "none"
    /\ ncalls = 0
    /\ noise = 0
    /\ outstanding = {}
    /\ sent = <<>>

(* --------------------------- the subprocess ---------------------------- *)
Versions == {[major |-> ma, minor |-> mi] : ma \in {1, 2}, mi \in 0..MaxMinor}

RECURSIVE SeqsUpTo(_, _)
SeqsUpTo(S, n) ==
    IF n = 0 THEN {<<>>}
    ELSE SeqsUpTo(S, n - 1) \cup
         {Append(q, x) : q \in {r \in SeqsUpTo(S, n - 1) : Len(r) = n - 1}, x \in S}

VersionLists == SeqsUpTo(Versions, MaxVersions)

Hello(versions) == [type |-> "hello", supportedProtocolVersions |-> versions]

\* Cookies a server message may bear: the one of the latest command written,
\* or one (0) that no command of this client ever carried.
Latest == IF nextCookie > 1 THEN {nextCookie - 1} ELSE {}
ServerCookies == {0} \cup Latest

Frame(m) == <<Header, dumps(m), Footer>>

\* What a conforming server writes: its greeting, as its first write, and
\* the terminal message (reply or error) of the latest command.
Conforming ==
    (IF ~greeted THEN {Hello(vs) : vs \in VersionLists} ELSE {})
    \cup {[type |-> "reply", cookie |-> c] : c \in Latest}
    \cup {[type |-> "error", cookie |-> c, errorMessage |-> "failed"] : c \in Latest}

\* Everything else the subprocess may write in one go: notifications,
\* messages bearing a foreign cookie, messages of an unknown type, a stray
\* greeting, a frame cut short before its footer, stray lines.  The text of
\* a message notification is the number of its write.
Noise ==
    {Frame([type |-> t, cookie |-> c]) : t \in {"progress", "signal"}, c \in ServerCookies}
    \cup {Frame([type |-> "message", cookie |-> c, message |-> noise + 1]) : c \in ServerCookies}
    \cup {Frame([type |-> "reply", cookie |-> 0]),
          Frame([type |-> "error", cookie |-> 0, errorMessage |-> "failed"]),
          Frame(Hello(<<>>))}
    \cup {<<Header, dumps([type |-> "reply", cookie |-> c])>> : c \in Latest}
    \cup {<<Header>>, <<Footer>>, <<Junk>>}

\* The client is idle or blocked in readline: the points at which what is
\* in the pipe makes a difference to it.
Blocked == pc \in {"idle", "scan_header", "read_body"}

\* One write of the subprocess.  The client reads the pipe line by line, in
\* order, and blocks on an empty pipe, so a write that lands behind unread
\* lines is seen by it exactly as the same write landing once those lines
\* are read: writes are taken at the moments the pipe is drained.
ServerWrite(lines) ==
    /\ server /= None
    /\ procs[server].state = "running"
    /\ Blocked
    /\ stdout = <<>>
    /\ stdout' = stdout \o lines
    /\ greeted' = TRUE
    /\ UNCHANGED procs
    /\ UNCHANGED client

\* The subprocess writes a conforming message.
ServerSend(m) ==
    /\ ServerWrite(Frame(m))
    /\ UNCHANGED noise

\* The subprocess writes something else.
ServerNoise(lines) ==
    /\ noise < MaxNoise
    /\ noise' = noise + 1
    /\ ServerWrite(lines)

\* The subprocess exits on its own; its end of the pipe closes, so a read
\* past the buffered lines returns ''.
ServerExit ==
    /\ server /= None
    /\ procs[server].state = "running"
    /\ procs' = [procs EXCEPT ![server].state = "exited"]
    /\ UNCHANGED <<greeted, stdout, noise>>
    /\ UNCHANGED client

\* subprocess.Popen(...): a new running process.
Popen == [state |-> "running", signals |-> 0]

\* self._server.poll(): the value of returncode after it.
poll == IF procs[server].state = "exited" THEN "status" ELSE returncode

\* readline() (a mutation: it goes on blocking at the end of the stream).
NeverAtEOF == FALSE

\* readline() returns '' : the pipe is drained and its write end is closed.
AtEOF == stdout = <<>> /\ procs[server].state = "exited"

(* ------------------------ _check_server_liveliness --------------------- *)
\* Lines 200-208 (a mutation: the exit status is not looked at).
check_handle_only ==
    IF server = None THEN "UsageError" ELSE "ok"

\* The exception _check_server_liveliness raises, "ok" if none.
check_server_liveliness ==
    IF server = None THEN "UsageError"
    ELSE IF poll /= "None" THEN "ServerExited"
    ELSE "ok"

\* Its effect on the handle (the poll of line 206).
Polled == IF server = None THEN returncode ELSE poll

(* ----------------------------- call endings ---------------------------- *)
\* An exception propagates out of the top-level call to the caller; the
\* locals of the call are gone.  A with statement whose __enter__ raises is
\* left without running __exit__.
Raise(e) ==
    /\ pc' = "idle"
    /\ exc' = e
    /\ scope' = IF scope = "entering" THEN "exited" ELSE scope
    /\ stage' = "none"
    /\ cmd' = NoObject
    /\ required' = FALSE
    /\ cookie' = 0
    /\ object_string' = <<>>
    /\ result' = NoObject

\* The top-level call returns res normally.
Return(res) ==
    /\ pc' = "idle"
    /\ exc' = "none"
    /\ scope' = IF scope = "entering" THEN "body" ELSE scope
    /\ stage' = "none"
    /\ cmd' = NoObject
    /\ required' = FALSE
    /\ cookie' = 0
    /\ object_string' = <<>>
    /\ result' = res

\* The call in progress goes on at label.
Goto(label) ==
    /\ pc' = label
    /\ UNCHANGED <<exc, scope, stage, cmd, required, cookie>>

\* _issue_command_and_await_reply(command, required=req) is called for the
\* command named stg.
Start(command, req, stg) ==
    /\ pc' = "issue_command"
    /\ stage' = stg
    /\ cmd' = command
    /\ required' = req
    /\ result' = NoObject
    /\ UNCHANGED <<cookie, object_string>>

(* ------------------------------ __init__ -------------------------------- *)
SourceFolder == "src"                \* self._source_folder
BuildFolder == "build"               \* self._build_folder
Generator == "Unix Makefiles"        \* self._generator()
Toolset == "toolset"                 \* self._toolset
Os == "Linux"                        \* self._os
IsVisualStudio(g) == g \in {"Visual Studio 14 2015", "Visual Studio 15 2017"}

Info(text) == [level |-> "info", text |-> text]

(* ------------------------------ __enter__ ------------------------------- *)
\* Lines 44-57: spawn the server, announce it, go and read the greeting.
\* The call opens the caller's with statement.
Enter ==
    /\ pc = "idle"
    /\ ncalls < MaxCalls
    /\ ncalls' = ncalls + 1
    /\ procs' = Append(procs, Popen)
    /\ server' = Len(procs) + 1
    /\ returncode' = "None"
    /\ greeted' = FALSE
    /\ stdin' = <<>>
    /\ stdout' = <<>>
    /\ output' = <<Info("Establishing CMake server connection...")>>
    /\ op' = "enter"
    /\ stage' = "hello"
    /\ pc' = "get_next_object"
    /\ exc' = "none"
    /\ scope' = "entering"
    /\ result' = NoObject
    /\ outstanding' = {}
    /\ UNCHANGED <<cmd, required, cookie, nextCookie, object_string, noise, sent>>

\* Lines 65-71: the version selection loop over supportedProtocolVersions.
RECURSIVE SelectVersion(_, _, _, _)
SelectVersion(versions, i, major, minor) ==
    IF i > Len(versions) THEN [major |-> major, minor |-> minor]
    ELSE IF versions[i].major = 1
         THEN SelectVersion(versions, i + 1, versions[i].major,
                            IF versions[i].minor > minor THEN versions[i].minor ELSE minor)
         ELSE SelectVersion(versions, i + 1, major, minor)

\* Lines 65-71 from major = 0, minor = 0 (a mutation: the minor is raised by
\* entries of any major).
NegotiatedVersionAnyMajor(versions) ==
    LET minors == {0} \cup {versions[i].minor : i \in 1..Len(versions)}
    IN  [major |-> IF \E i \in 1..Len(versions) : versions[i].major = 1 THEN 1 ELSE 0,
         minor |-> CHOOSE m \in minors : \A k \in minors : k <= m]

\* Lines 65-71 from major = 0, minor = 0 (a mutation: major is taken from
\* every entry).
NegotiatedVersionNoCheck(versions) ==
    [major |-> IF versions = <<>> THEN 0 ELSE versions[Len(versions)].major,
     minor |-> SelectVersion(versions, 1, 0, 0).minor]

\* Lines 65-71 from the initial values of lines 65-66.
NegotiatedVersion(versions) == SelectVersion(versions, 1, 0, 0)

\* Lines 78-87: the handshake command.
Handshake(version) ==
    LET handshake == [type |-> "handshake",
                      protocolVersion |-> [major |-> version.major, minor |-> version.minor],
                      sourceDirectory |-> SourceFolder,
                      buildDirectory |-> BuildFolder,
                      generator |-> Generator,
                      toolset |-> Toolset]
    IN  IF ~IsVisualStudio(handshake.generator)
        THEN handshake @@ [platform |-> Os]
        ELSE handshake

\* Line 89 (a mutation: the handshake call is not required).
HandshakeNotRequired == FALSE

\* Line 89: required=True.
HandshakeRequired == TRUE

\* Lines 58-89: the greeting was read; check it, select the version and
\* start the handshake call.
EnterHello ==
    /\ pc = "hello"
    /\ IF result.type /= "hello"
       THEN Raise("ExpectedHello")
       ELSE LET version == NegotiatedVersion(result.supportedProtocolVersions)
            IN  IF version.major = 0
                THEN Raise("NoProtocol")
                ELSE /\ Start(Handshake(version), HandshakeRequired, "handshake")
                     /\ UNCHANGED <<exc, scope>>
    /\ UNCHANGED <<procs, returncode, stdin, stdout, nextCookie, output>>
    /\ UNCHANGED world

\* Lines 90-98: the handshake call returned; announce the protocol and start
\* the setGlobalSettings call.
EnterSettings ==
    /\ pc = "returned"
    /\ op = "enter"
    /\ stage = "handshake"
    /\ output' = Append(output,
                        [level |-> "info", text |-> "CMake Server connection established",
                         protocol |-> cmd.protocolVersion])
    /\ Start([type |-> "setGlobalSettings",
              sourceDirectory |-> SourceFolder,
              buildDirectory |-> BuildFolder,
              currentGenerator |-> Generator], TRUE, "setGlobalSettings")
    /\ UNCHANGED <<procs, returncode, stdin, stdout, nextCookie, exc, scope>>
    /\ UNCHANGED world

\* Line 100: return self.
EnterReturn ==
    /\ pc = "returned"
    /\ op = "enter"
    /\ stage = "setGlobalSettings"
    /\ Return(NoObject)
    /\ UNCHANGED <<procs, returncode, stdin, stdout, nextCookie, output>>
    /\ UNCHANGED world

(* ------------------------------- __exit__ ------------------------------- *)
\* Popen.terminate() on process p: a running process gets the signal and
\* ends.
terminate(ps, p) ==
    IF ps[p].state = "running"
    THEN [ps EXCEPT ![p].signals = @ + 1, ![p].state = "exited"]
    ELSE ps

\* Line 110: the handle is cleared; the Popen object and its pipes are no
\* longer reachable.
Dropped ==
    /\ server' = None
    /\ returncode' = "None"
    /\ greeted' = FALSE
    /\ stdin' = <<>>
    /\ stdout' = <<>>
    /\ outstanding' = {}

\* Lines 103-110; the call closes the caller's with statement.  terminate()
\* on a process already reaped either does nothing (Python 3) or raises
\* OSError from os.kill (Python 2): raises tells which.
Exit(raises) ==
    /\ pc = "idle"
    /\ op' = "exit"
    /\ scope' = "exited"
    /\ output' = <<>>
    /\ result' = NoObject
    /\ IF server = None
       THEN \* None has no attribute poll
            /\ exc' = "AttributeError"
            /\ UNCHANGED <<procs, server, returncode, greeted, stdin, stdout, outstanding>>
       ELSE IF poll /= "None"
            THEN IF raises /\ procs[server].state /= "running"
                 THEN /\ exc' = "OSError"
                      /\ returncode' = poll
                      /\ UNCHANGED <<procs, server, greeted, stdin, stdout, outstanding>>
                 ELSE /\ exc' = "none"
                      /\ procs' = terminate(procs, server)
                      /\ Dropped
            ELSE /\ exc' = "none"
                 /\ UNCHANGED procs
                 /\ Dropped
    /\ UNCHANGED <<pc, stage, cmd, required, cookie, nextCookie, object_string,
                   ncalls, noise, sent>>

(* --------------------------- _get_next_object --------------------------- *)
\* Where _get_next_object returns to: line 58 or line 183.
Caller == IF stage = "hello" THEN "hello" ELSE "await"

\* Line 115: the liveliness check before the first read.
GetNextObject ==
    /\ pc = "get_next_object"
    /\ returncode' = Polled
    /\ IF check_server_liveliness = "ok"
       THEN /\ Goto("scan_header")
            /\ UNCHANGED <<object_string, result>>
       ELSE Raise(check_server_liveliness)
    /\ UNCHANGED <<procs, stdin, stdout, nextCookie, output>>
    /\ UNCHANGED world

\* Line 139 on what was accumulated: json.loads returns to the caller or
\* raises ValueError.
Parse(accumulated) ==
    IF IsJson(accumulated)
    THEN /\ Goto(Caller)
         /\ result' = loads(accumulated)
         /\ object_string' = <<>>
    ELSE Raise("ValueError")

\* Lines 119-126: one readline of the header scan.  At end of stream both
\* loops are over and the empty object_string goes to json.loads.
ScanHeader ==
    /\ pc = "scan_header"
    /\ \/ /\ stdout /= <<>>
          /\ stdout' = Tail(stdout)
          /\ IF Head(stdout) = Header
             THEN /\ Goto("read_body")
                  /\ object_string' = <<>>
                  /\ UNCHANGED <<returncode, result>>
             ELSE /\ returncode' = Polled
                  /\ IF check_server_liveliness = "ok"
                     THEN /\ Goto("scan_header")
                          /\ UNCHANGED <<object_string, result>>
                     ELSE Raise(check_server_liveliness)
       \/ /\ AtEOF
          /\ Parse(<<>>)
          /\ UNCHANGED <<returncode, stdout>>
    /\ UNCHANGED <<procs, stdin, nextCookie, output>>
    /\ UNCHANGED world

\* Lines 129-139: one readline of the body loop.  The footer, or the end of
\* the stream, ends the loop and the accumulated text is parsed.
ReadBody ==
    /\ pc = "read_body"
    /\ \/ /\ stdout /= <<>>
          /\ stdout' = Tail(stdout)
          /\ IF Head(stdout) = Footer
             THEN /\ Parse(object_string)
                  /\ UNCHANGED returncode
             ELSE /\ returncode' = Polled
                  /\ IF check_server_liveliness = "ok"
                     THEN /\ Goto("read_body")
                          /\ object_string' = Append(object_string, Head(stdout))
                          /\ UNCHANGED result
                     ELSE Raise(check_server_liveliness)
       \/ /\ AtEOF
          /\ Parse(object_string)
          /\ UNCHANGED <<returncode, stdout>>
    /\ UNCHANGED <<procs, stdin, nextCookie, output>>
    /\ UNCHANGED world

(* ---------------------------- _issue_command ---------------------------- *)
\* Lines 153-158: the lines written for a command.
Written(command) == <<Header, dumps(command), Footer, Blank>>

\* Lines 173-177 and 142-159: attach a fresh cookie, check the server and
\* write the command; then await the reply (line 182).
IssueCommand ==
    /\ pc = "issue_command"
    /\ nextCookie' = nextCookie + 1
    /\ returncode' = Polled
    /\ IF check_server_liveliness = "ok"
       THEN /\ cookie' = nextCookie
            /\ cmd' = [cookie |-> nextCookie] @@ cmd
            /\ stdin' = stdin \o Written([cookie |-> nextCookie] @@ cmd)
            /\ outstanding' = outstanding \cup {nextCookie}
            /\ pc' = "get_next_object"
            /\ UNCHANGED <<exc, scope, stage, required, object_string, result>>
       ELSE /\ Raise(check_server_liveliness)
            /\ UNCHANGED <<stdin, outstanding>>
    /\ UNCHANGED <<procs, stdout, output>>
    /\ UNCHANGED session

(* --------------------- _issue_command_and_await_reply ------------------- *)
\* Lines 235-241 (a mutation: an error result is let through).
never_raise(res) == FALSE

\* Lines 235-241: _raise_if_error raises on this result.
raise_if_error(res) == res.type = "error"

\* Line 183 (a mutation: the cookie is not looked at).
AnyCookie(res) == FALSE

\* Line 183: the object read bears another cookie than the command's.
Unrelated(res) == res.cookie /= cookie

\* Line 187 (a mutation: the notification is dropped).
NoWriteln(out, res) == out

\* Line 187: output.writeln(result["message"]).
Writeln(out, res) == Append(out, [level |-> "writeln", text |-> res.message])

\* Line 191 (a mutation: every type left is taken for a terminal one).
unknown_type_never(res) == FALSE

\* Line 191: the type is neither error nor reply.
unknown_type(res) == res.type /= "error" /\ res.type /= "reply"

\* Lines 183-192: the object read ends the wait loop; it is the terminal
\* message of the command.
Ends(res) ==
    /\ "cookie" \in DOMAIN res
    /\ ~Unrelated(res)
    /\ res.type \in {"reply", "error"}

\* Lines 183-197: one turn of the wait loop on the object just read, and,
\* when the loop ends, the required check and the return.
AwaitReply ==
    /\ pc = "await"
    /\ IF "cookie" \notin DOMAIN result
       THEN /\ Raise("KeyError")
            /\ UNCHANGED output
       ELSE IF Unrelated(result)
       THEN /\ Goto("get_next_object")
            /\ result' = NoObject
            /\ UNCHANGED <<output, object_string>>
       ELSE IF result.type = "message"
       THEN /\ output' = Writeln(output, result)
            /\ Goto("get_next_object")
            /\ result' = NoObject
            /\ UNCHANGED object_string
       ELSE IF result.type = "progress"
       THEN /\ Goto("get_next_object")
            /\ result' = NoObject
            /\ UNCHANGED <<output, object_string>>
       ELSE IF unknown_type(result)
       THEN /\ Raise("UnknownType")
            /\ UNCHANGED output
       ELSE IF required /\ raise_if_error(result)
       THEN /\ output' = Append(output, [level |-> "error", text |-> result.errorMessage])
            /\ Raise("ServerError")
       ELSE /\ Goto("returned")
            /\ UNCHANGED <<output, object_string, result>>
    /\ outstanding' = IF Ends(result) THEN outstanding \ {cookie} ELSE outstanding
    /\ UNCHANGED <<procs, returncode, stdin, stdout, nextCookie>>
    /\ UNCHANGED session

\* A caller's own call of _issue_command_and_await_reply(command, req).
Call(req) ==
    /\ pc = "idle"
    /\ ncalls < MaxCalls
    /\ ncalls' = ncalls + 1
    /\ op' = "call"
    /\ exc' = "none"
    /\ output' = <<>>
    /\ Start([type |-> "cmakeInputs"], req, "call")
    /\ stdin' = <<>>
    /\ UNCHANGED <<procs, server, returncode, greeted, stdout, nextCookie,
                   scope, noise, outstanding, sent>>

\* Line 197 seen from that caller: the result is returned.
CallReturn ==
    /\ pc = "returned"
    /\ op = "call"
    /\ Return(result)
    /\ UNCHANGED <<procs, returncode, stdin, stdout, nextCookie, output>>
    /\ UNCHANGED world

(* ------------------------------ _configure ------------------------------ *)
Key == 1
Val == 2
DefsInputs == {NoDefs, <<>>, <<<<"FOO", "bar">>, <<"CMAKE_BUILD_TYPE", "Release">>>>}

\* Line 219, defs.items(): the items of the mapping in its iteration order.
\* defs lists the items in the order of their insertion; a dict of Python 2
\* iterates in the order of its hash table, an OrderedDict and a dict of
\* Python 3.7 in the order of insertion: any order is a possible outcome.
Items(defs) ==
    IF defs = NoDefs THEN {NoDefs}
    ELSE {[i \in 1..Len(defs) |-> defs[p[i]]] : p \in Permutations(1..Len(defs))}

\* Lines 217-220 (a mutation: each argument is put in front of the list).
cache_arguments_prepend(defs) ==
    IF defs = NoDefs THEN <<>>
    ELSE [i \in 1..Len(defs) |->
             <<"-D", defs[Len(defs) + 1 - i][Key], "=", defs[Len(defs) + 1 - i][Val]>>]

\* Lines 217-220: "-D%s=%s" for each item of defs, in order.
cache_arguments(defs) ==
    IF defs = NoDefs THEN <<>>
    ELSE [i \in 1..Len(defs) |-> <<"-D", defs[i][Key], "=", defs[i][Val]>>]

\* Line 226 (a mutation: the configure call is not required).
ConfigureNotRequired == FALSE

\* Line 226: required=True.
ConfigureRequired == TRUE

\* Lines 211-226: start the configure call; defs is what defs.items() yields.
Configure(defs) ==
    /\ pc = "idle"
    /\ ncalls < MaxCalls
    /\ ncalls' = ncalls + 1
    /\ op' = "configure"
    /\ exc' = "none"
    /\ output' = <<>>
    /\ Start([type |-> "configure", cacheArguments |-> cache_arguments(defs)],
             ConfigureRequired, "configure")
    /\ stdin' = <<>>
    /\ UNCHANGED <<procs, server, returncode, greeted, stdout, nextCookie,
                   scope, noise, outstanding, sent>>

\* Line 229: the configure call returned; start the compute call.
ConfigureCompute ==
    /\ pc = "returned"
    /\ op = "configure"
    /\ stage = "configure"
    /\ Start([type |-> "compute"], TRUE, "compute")
    /\ UNCHANGED <<procs, returncode, stdin, stdout, nextCookie, output, exc, scope>>
    /\ UNCHANGED world

\* End of _configure.
ConfigureReturn ==
    /\ pc = "returned"
    /\ op = "configure"
    /\ stage = "compute"
    /\ Return(NoObject)
    /\ UNCHANGED <<procs, returncode, stdin, stdout, nextCookie, output>>
    /\ UNCHANGED world

(* --------------------------- the specification -------------------------- *)
Next ==
    \/ Enter
    \/ EnterHello
    \/ EnterSettings
    \/ EnterReturn
    \/ \E raises \in BOOLEAN : Exit(raises)
    \/ GetNextObject
    \/ ScanHeader
    \/ ReadBody
    \/ IssueCommand
    \/ AwaitReply
    \/ \E req \in BOOLEAN : Call(req)
    \/ CallReturn
    \/ \E defs \in DefsInputs : \E items \in Items(defs) : Configure(items)
    \/ ConfigureCompute
    \/ ConfigureReturn
    \/ \E m \in Conforming : ServerSend(m)
    \/ \E lines \in Noise : ServerNoise(lines)
    \/ ServerExit

Spec == Init /\ [][Next]_vars

\* The client is one sequential thread: inside a call it takes its next
\* step whenever that step is possible, that is unless it is blocked in
\* readline on an empty pipe of a running subprocess.  Nothing is assumed of
\* the subprocess or of the caller.
ClientStep ==
    \/ EnterHello
    \/ EnterSettings
    \/ EnterReturn
    \/ GetNextObject
    \/ ScanHeader
    \/ ReadBody
    \/ IssueCommand
    \/ AwaitReply
    \/ CallReturn
    \/ ConfigureCompute
    \/ ConfigureReturn

\* __enter__ on an object that was not entered before.
FirstEnter == procs = <<>> /\ Enter

\* The steps of an object that is entered at most once.
NextOneSession ==
    \/ FirstEnter
    \/ \E raises \in BOOLEAN : Exit(raises)
    \/ \E req \in BOOLEAN : Call(req)
    \/ \E defs \in DefsInputs : \E items \in Items(defs) : Configure(items)
    \/ ClientStep
    \/ \E m \in Conforming : ServerSend(m)
    \/ \E lines \in Noise : ServerNoise(lines)
    \/ ServerExit

FairSpec == Init /\ [][NextOneSession]_vars /\ WF_vars(ClientStep)

(* ----------------------- the framer on its own ------------------------- *)
\* The command objects handed to _issue_command: the commands of this
\* client, cookie attached (line 174).
CommandInputs ==
    LET bare == {Handshake(v) : v \in {w \in Versions : w.major = 1}}
                \cup {[type |-> "setGlobalSettings", sourceDirectory |-> SourceFolder,
                       buildDirectory |-> BuildFolder, currentGenerator |-> Generator]}
                \cup {[type |-> "configure", cacheArguments |-> cache_arguments(defs)] :
                         defs \in DefsInputs}
                \cup {[type |-> "compute"], [type |-> "cmakeInputs"]}
    IN  {[cookie |-> c] @@ b : c \in 1..MaxWritten, b \in bare}

\* A subprocess is running and the handle is set (lines 46-51); its pipes
\* are looped back, so that what is written to its stdin is what comes out
\* of its stdout.
InitRoundTrip ==
    /\ procs = <<Popen>>
    /\ server = 1
    /\ returncode = "None"
    /\ greeted = FALSE
    /\ stdin = <<>>
    /\ stdout = <<>>
    /\ pc = "idle"
    /\ op = "none"
    /\ stage = "none"
    /\ cmd = NoObject
    /\ required = FALSE
    /\ cookie = 0
    /\ nextCookie = 1
    /\ object_string = <<>>
    /\ result = NoObject
    /\ output = <<>>
    /\ exc = "none"
    /\ scope = "none"
    /\ ncalls = 0
    /\ noise = 0
    /\ outstanding = {}
    /\ sent = <<>>

\* Lines 142-159: _issue_command(command) called on its own.
IssueOnly(command) ==
    /\ pc = "idle"
    /\ ncalls < MaxWritten
    /\ ncalls' = ncalls + 1
    /\ op' = "issue"
    /\ returncode' = Polled
    /\ IF check_server_liveliness = "ok"
       THEN /\ stdin' = stdin \o Written(command)
            /\ stdout' = stdout \o Written(command)
            /\ sent' = Append(sent, command)
            /\ Return(NoObject)
       ELSE /\ Raise(check_server_liveliness)
            /\ UNCHANGED <<stdin, stdout, sent>>
    /\ UNCHANGED <<procs, server, greeted, nextCookie, output, noise, outstanding>>

\* Lines 113-115: _get_next_object() called on its own.
ReadOnly ==
    /\ pc = "idle"
    /\ sent /= <<>>
    /\ op' = "read"
    /\ stage' = "read"
    /\ pc' = "get_next_object"
    /\ exc' = "none"
    /\ result' = NoObject
    /\ UNCHANGED <<procs, server, returncode, greeted, stdin, stdout, cmd, required,
                   cookie, nextCookie, object_string, output, scope, ncalls, noise,
                   outstanding, sent>>

\* Line 139 seen from that caller: the object parsed is returned.
ReadReturn ==
    /\ pc = "await"
    /\ op = "read"
    /\ Return(result)
    /\ sent' = Tail(sent)
    /\ UNCHANGED <<procs, server, returncode, greeted, stdin, stdout, nextCookie,
                   output, op, ncalls, noise, outstanding>>

NextRoundTrip ==
    \/ \E command \in CommandInputs : IssueOnly(command)
    \/ ReadOnly
    \/ GetNextObject
    \/ ScanHeader
    \/ ReadBody
    \/ ReadReturn

SpecRoundTrip == InitRoundTrip /\ [][NextRoundTrip]_vars

(* ------------------------------ properties ----------------------------- *)
\* The commands written to stdin, in order, read back from their JSON lines.
Commands(lines) ==
    LET json == SelectSeq(lines, LAMBDA l : l.kind = "json")
    IN  [i \in 1..Len(json) |-> loads(<<json[i]>>)]

\* A step of __exit__.
ExitStep == \E raises \in BOOLEAN : Exit(raises)

\* The object read in the wait loop bears a cookie.
Awaited == pc = "await" /\ "cookie" \in DOMAIN result

\* The object read in the wait loop is the terminal message of the command.
Terminal ==
    /\ Awaited
    /\ result.cookie = cookie
    /\ result.type \in {"reply", "error"}

\* The major-1 entries of a version list, and the largest minor among them.
Major1(versions) == {i \in 1..Len(versions) : versions[i].major = 1}
LargestMinor(versions) ==
    CHOOSE m \in {versions[i].minor : i \in Major1(versions)} :
        \A i \in Major1(versions) : versions[i].minor <= m

\* C1: a message whose cookie differs from the command's is consumed and
\* ignored whatever its tag (the wait loop goes on, nothing is written to the
\* output, nothing is returned), and _issue_command_and_await_reply returns
\* only a message tagged reply or error that bears the command's cookie.
C1_IgnoresUnrelated ==
    (AwaitReply /\ Awaited /\ result.cookie /= cookie)
        => (pc' = "get_next_object" /\ output' = output /\ exc' = exc /\ stdin' = stdin)
C1_ReturnsTerminal ==
    pc = "returned" => (/\ "cookie" \in DOMAIN result
                        /\ result.cookie = cookie
                        /\ result.type \in {"reply", "error"})
C1_CookieCorrelation == [][C1_IgnoresUnrelated]_vars /\ []C1_ReturnsTerminal

\* C1 witness: the wait loop holds a reply that bears a foreign cookie.
C1_Witness == Awaited /\ result.cookie /= cookie /\ result.type = "reply"

\* C2: when the with statement has been left, by a normal end, by a failure
\* in its body or by a failure of __enter__, no spawned subprocess is still
\* running.
C2_ReleasedOnEveryPath ==
    (scope = "exited" /\ pc = "idle")
        => \A p \in DOMAIN procs : procs[p].state /= "running"

\* C3: __exit__ on a subprocess that is still running sends it exactly one
\* terminate signal and clears the handle.
C3_ExitTerminates ==
    (ExitStep /\ server /= None /\ procs[server].state = "running")
        => (/\ procs'[server].signals = procs[server].signals + 1
            /\ server' = None)
C3_TerminatesRunning == [][C3_ExitTerminates]_vars

\* C4: __exit__ called again after a release, or on a subprocess that has
\* exited on its own, does not raise, sends no signal and leaves the handle
\* cleared.
C4_Released == server = None /\ op = "exit" /\ exc = "none"
C4_ExitedAlready == server /= None /\ procs[server].state = "exited"
C4_ExitRepeats ==
    (ExitStep /\ (C4_Released \/ C4_ExitedAlready))
        => (/\ exc' = "none"
            /\ server' = None
            /\ \A p \in DOMAIN procs : procs'[p].signals = procs[p].signals)
C4_ReleaseIdempotent == [][C4_ExitRepeats]_vars

\* C5: once the exit status of the session's subprocess is available, a read
\* attempt (_get_next_object) or a write attempt (_issue_command) can be
\* made without blocking, and it fails with the server-exited error: nothing
\* is read, nothing is written, no message is returned.
C5_Attempt ==
    /\ server /= None
    /\ procs[server].state = "exited"
    /\ pc \in {"get_next_object", "issue_command"}
C5_AttemptFails ==
    C5_Attempt => (/\ pc' = "idle"
                   /\ exc' = "ServerExited"
                   /\ result' = NoObject
                   /\ stdin' = stdin
                   /\ stdout' = stdout)
C5_ServerExited ==
    /\ [][C5_AttemptFails]_vars
    /\ [](C5_Attempt => ENABLED (GetNextObject \/ IssueCommand))

\* C5 witness: a call made on a session whose subprocess had exited failed
\* with the server-exited error at its write attempt.
C5_Witness ==
    /\ pc = "idle"
    /\ op \in {"configure", "call"}
    /\ exc = "ServerExited"
    /\ server /= None
    /\ stdin = <<>>

\* C6: for a greeting that lists at least one entry of major 1, the
\* handshake command carries version (1, m), m the largest minor among the
\* entries of major 1, whatever the order and the other majors.
C6_Selects ==
    (/\ EnterHello
     /\ result.type = "hello"
     /\ Major1(result.supportedProtocolVersions) /= {})
        => (/\ pc' = "issue_command"
            /\ cmd'.type = "handshake"
            /\ cmd'.protocolVersion =
                   [major |-> 1, minor |-> LargestMinor(result.supportedProtocolVersions)])
C6_Written ==
    (IssueCommand /\ stage = "handshake" /\ stdin' /= stdin)
        => (/\ cmd.protocolVersion.major = 1
            /\ Commands(stdin') = <<[cookie |-> nextCookie] @@ cmd>>)
C6_HighestMinor == [][C6_Selects /\ C6_Written]_vars

\* C6 witness: a handshake command for the largest minor offered is written.
C6_Witness ==
    \E i \in 1..Len(Commands(stdin)) :
        /\ Commands(stdin)[i].type = "handshake"
        /\ Commands(stdin)[i].protocolVersion = [major |-> 1, minor |-> MaxMinor]

\* C7: for a greeting that lists no entry of major 1 (the empty list
\* included), __enter__ fails with the no-protocol handshake failure and no
\* command has been written to the subprocess.
C7_Refuses ==
    (/\ EnterHello
     /\ result.type = "hello"
     /\ Major1(result.supportedProtocolVersions) = {})
        => (/\ pc' = "idle"
            /\ exc' = "NoProtocol"
            /\ stdin = <<>>
            /\ stdin' = <<>>)
C7_NoProtocol == [][C7_Refuses]_vars

\* C7 witness: __enter__ failed for lack of a 1.x protocol.
C7_Witness == pc = "idle" /\ op = "enter" /\ exc = "NoProtocol" /\ stdin = <<>>

\* C8: on the terminal message of a required call tagged error, the call
\* raises and the error text is on the output, as an error line, when the
\* caller sees the failure; on a terminal message tagged reply, or when the
\* call is not required, nothing is written and the message is returned.
C8_OnTerminal ==
    (AwaitReply /\ Terminal) =>
        IF required /\ result.type = "error"
        THEN /\ pc' = "idle"
             /\ exc' = "ServerError"
             /\ output' = Append(output, [level |-> "error", text |-> result.errorMessage])
        ELSE /\ pc' = "returned"
             /\ result' = result
             /\ output' = output
C8_ToCaller ==
    (pc = "returned" /\ op = "call" /\ pc' /= pc)
        => (pc' = "idle" /\ exc' = "none" /\ result' = result /\ output' = output)
C8_Failed ==
    (pc = "idle" /\ exc = "ServerError")
        => (output /= <<>> /\ output[Len(output)].level = "error")
C8_RequiredError == [][C8_OnTerminal /\ C8_ToCaller]_vars /\ []C8_Failed

\* C8 witness: a required call failed on an error reply.
C8_Witness == pc = "idle" /\ exc = "ServerError" /\ op \in {"configure", "call"}

\* The writeln lines of the output, in order.
Forwarded == SelectSeq(output, LAMBDA l : l.level = "writeln")

\* C9 as claimed: every message notification read in the wait loop is
\* written to the output and the loop goes on; every progress notification
\* is dropped without output and the loop goes on.
C9_EveryMessage ==
    /\ (AwaitReply /\ Awaited /\ result.type = "message")
          => (/\ output' = Append(output, [level |-> "writeln", text |-> result.message])
              /\ pc' = "get_next_object")
    /\ (AwaitReply /\ Awaited /\ result.type = "progress")
          => (output' = output /\ pc' = "get_next_object")
C9_ForwardsEveryMessage == [][C9_EveryMessage]_vars

\* C9 amended: a message notification that bears the cookie of the call is
\* written to the output, after the lines already there, and the loop goes
\* on, so the notifications appear in the order of their arrival; a message
\* notification that bears another cookie is dropped without output; every
\* progress notification is dropped without output and the loop goes on.
C9_OwnMessage ==
    /\ (AwaitReply /\ Awaited /\ result.type = "message" /\ result.cookie = cookie)
          => (/\ output' = Append(output, [level |-> "writeln", text |-> result.message])
              /\ pc' = "get_next_object")
    /\ (AwaitReply /\ Awaited /\ result.type = "message" /\ result.cookie /= cookie)
          => (output' = output /\ pc' = "get_next_object")
    /\ (AwaitReply /\ Awaited /\ result.type = "progress")
          => (output' = output /\ pc' = "get_next_object")
C9_ArrivalOrder ==
    \A i, j \in 1..Len(Forwarded) : i < j => Forwarded[i].text < Forwarded[j].text
C9_ForwardsOwnMessages == [][C9_OwnMessage]_vars /\ []C9_ArrivalOrder

\* C9 witness: the wait loop goes on after two notifications were forwarded.
C9_Witness == pc = "get_next_object" /\ Len(Forwarded) = 2

\* C10: during configure the commands written are the configure command
\* and then, only once the reply to it has been read, the compute command,
\* each once; when the configure command gets an error, or the call fails
\* for any other reason, nothing more is written.
C10_Fresh ==
    \A i \in 1..Len(Commands(stdin)) :
        /\ Commands(stdin)[i].cookie < nextCookie
        /\ \A j \in 1..Len(Commands(stdin)) :
              i < j => Commands(stdin)[i].cookie < Commands(stdin)[j].cookie
C10_Order ==
    (op = "configure" /\ pc /= "idle") =>
        LET W == Commands(stdin)
            n == Len(W)
        IN  /\ C10_Fresh
            /\ (stage = "configure" /\ pc = "issue_command") => n = 0
            /\ (stage = "configure" /\ pc /= "issue_command")
                  => (n = 1 /\ W[1].type = "configure" /\ W[1].cookie = cookie)
            /\ (stage = "compute" /\ pc = "issue_command")
                  => (n = 1 /\ W[1].type = "configure" /\ W[1].cookie = nextCookie - 1)
            /\ (stage = "compute" /\ pc /= "issue_command")
                  => (/\ n = 2
                      /\ W[2].type = "compute" /\ W[2].cookie = cookie
                      /\ W[1].type = "configure" /\ W[1].cookie = cookie - 1)
C10_Steps ==
    /\ (AwaitReply /\ op = "configure" /\ Terminal /\ result.type = "error")
          => (pc' = "idle" /\ exc' /= "none" /\ stdin' = stdin)
    /\ (op = "configure" /\ pc /= "idle" /\ pc' = "idle" /\ exc' /= "none")
          => stdin' = stdin
    /\ (stage' = "compute" /\ stage /= "compute")
          => (/\ op = "configure" /\ stage = "configure" /\ pc = "returned"
              /\ result.type = "reply" /\ result.cookie = cookie)
    /\ (pc = "idle" /\ pc' = "idle") => (stdin' = stdin \/ stdin' = <<>>)
    /\ (pc = "idle" /\ op' = "configure" /\ pc' /= "idle") => stdin' = <<>>
C10_ConfigureThenCompute == []C10_Order /\ [][C10_Steps]_vars

\* C10 witness: the compute command has been written after the configure
\* command of the same call.
C10_Witness == op = "configure" /\ stage = "compute" /\ pc = "get_next_object"

\* The argument "-D<name>=<value>" of one item.
Argument(item) == <<"-D", item[Key], "=", item[Val]>>

\* A step of configure(defs) for the mapping whose items were inserted in
\* the order of defs.
ConfigureCall(defs) == \E items \in Items(defs) : Configure(items)

\* C11 as claimed: the cacheArguments of the configure command are the
\* arguments of the entries of defs in the order of their insertion.
C11_Insertion ==
    \A defs \in DefsInputs \ {NoDefs} :
        ConfigureCall(defs)
            => (/\ Len(cmd'.cacheArguments) = Len(defs)
                /\ \A i \in 1..Len(defs) : cmd'.cacheArguments[i] = Argument(defs[i]))
C11_Iteration ==
    /\ \A defs \in DefsInputs : \A items \in Items(defs) :
          Configure(items)
              => (/\ cmd'.type = "configure"
                  /\ Len(cmd'.cacheArguments) = (IF items = NoDefs THEN 0 ELSE Len(items))
                  /\ \A i \in 1..Len(cmd'.cacheArguments) :
                        cmd'.cacheArguments[i] = Argument(items[i]))
    /\ (IssueCommand /\ stage = "configure" /\ stdin' /= stdin)
          => (/\ Len(Commands(stdin')) = 1
              /\ Commands(stdin')[1].cacheArguments = cmd.cacheArguments)
C12_ReadBack ==
    /\ ReadReturn => (result = Head(sent) /\ result' = Head(sent))
    /\ (op = "read" /\ pc /= "idle") => (pc' /= "idle" \/ ReadReturn)
C12_RoundTrip == [][C12_ReadBack]_vars /\ [](exc = "none")

\* C12 witness: two commands were written one after another and the second
\* read has given back the second.
C12_Witness ==
    /\ pc = "idle"
    /\ op = "read"
    /\ Len(stdin) = 2 * Len(Written(NoObject))
    /\ sent = <<>>
    /\ result.type = "configure"
    /\ Len(result.cacheArguments) = 2
    /\ result.cookie = 2

\* C13: in every state of a session at most one cookie is outstanding: no
\* command is written while the terminal message of an earlier command of
\* the session has not been consumed.
C13_OneOutstanding == Cardinality(outstanding) <= 1

\* The caller is not inside an established session: the with statement was
\* not entered, or it was left (by __exit__, or by a failure of __enter__).
Outside == scope \in {"none", "exited"}

\* C14: a write attempted outside an established session fails with the
\* usage error, and nothing is written to or read from a subprocess.
C14_Refused ==
    (IssueCommand /\ Outside)
        => (/\ pc' = "idle"
            /\ exc' = "UsageError"
            /\ stdin' = stdin
            /\ stdout' = stdout
            /\ procs' = procs)
C14_UsageError == [][C14_Refused]_vars

\* The session is Ready: __enter__ returned and __exit__ has not run.
Ready == scope = "body"

\* C15: the commands of a session are written in the order of the state
\* machine: one handshake command, once a hello greeting was read; then one
\* setGlobalSettings command, once the reply to the handshake was read; a
\* configure or compute command only when the session is Ready, whatever
\* the caller does, going on after a failed __enter__ included.
C15_Order ==
    /\ (stage' = "handshake" /\ stage /= "handshake")
          => (stage = "hello" /\ result.type = "hello")
    /\ (stage' = "setGlobalSettings" /\ stage /= "setGlobalSettings")
          => (/\ stage = "handshake"
              /\ result.type = "reply"
              /\ result.cookie = cookie)
    /\ (IssueCommand /\ stdin' /= stdin) =>
          /\ cmd.type = "handshake"
                => (stage = "handshake" /\ scope = "entering" /\ stdin = <<>>)
          /\ cmd.type = "setGlobalSettings"
                => (/\ stage = "setGlobalSettings"
                    /\ scope = "entering"
                    /\ Len(Commands(stdin)) = 1
                    /\ Commands(stdin)[1].type = "handshake")
          /\ cmd.type \in {"configure", "compute"} => Ready
C15_StateMachine == [][C15_Order]_vars

\* A read of _get_next_object that finds the end of the stream: the
\* subprocess exited and the pipe is drained before the footer was read.
EndOfStream ==
    /\ pc \in {"scan_header", "read_body"}
    /\ AtEOF
    /\ (ScanHeader \/ ReadBody)

\* C16: when the output of the subprocess ends before a complete frame was
\* read, before the header or between header and footer, _get_next_object
\* fails with the server-exited error; nothing, empty or partial, goes to
\* the JSON parser, and no parse failure is reported.
C16_Fails ==
    EndOfStream => (pc' = "idle" /\ exc' = "ServerExited" /\ result' = NoObject)
C16_EndOfStream == [][C16_Fails]_vars

\* The types of the commands written, in order.
Types(lines) == [i \in 1..Len(Commands(lines)) |-> Commands(lines)[i].type]

\* C17: __enter__ returns only if the first message read was a hello and
\* the handshake and the setGlobalSettings commands each got a reply; when
\* the first message has another type it fails and no command is written;
\* when the handshake gets an error it fails and no setGlobalSettings
\* command is written.
C17_Steps ==
    /\ (scope = "entering" /\ scope' = "body")
          => (/\ EnterReturn
              /\ stage = "setGlobalSettings"
              /\ result.type = "reply"
              /\ result.cookie = cookie
              /\ Types(stdin) = <<"handshake", "setGlobalSettings">>
              /\ exc' = "none")
    /\ (stage' = "handshake" /\ stage /= "handshake")
          => (EnterHello /\ result.type = "hello")
    /\ (stage' = "setGlobalSettings" /\ stage /= "setGlobalSettings")
          => (/\ EnterSettings
              /\ result.type = "reply"
              /\ result.cookie = cookie
              /\ Types(stdin) = <<"handshake">>)
    /\ (EnterHello /\ result.type /= "hello")
          => (/\ pc' = "idle"
              /\ exc' = "ExpectedHello"
              /\ scope' = "exited"
              /\ stdin' = <<>>)
    /\ (AwaitReply /\ op = "enter" /\ stage = "handshake" /\ Terminal
            /\ result.type = "error")
          => (/\ pc' = "idle"
              /\ exc' = "ServerError"
              /\ scope' = "exited"
              /\ Types(stdin') = <<"handshake">>)
C17_Failed ==
    (op = "enter" /\ pc = "idle")
        => (/\ exc = "none" <=> scope = "body"
            /\ exc = "ExpectedHello" => stdin = <<>>
            /\ exc = "ServerError" /\ Types(stdin) /= <<"handshake">>
                  => Types(stdin) = <<"handshake", "setGlobalSettings">>)
C17_Acquire == [][C17_Steps]_vars /\ []C17_Failed

\* C17 witness: __enter__ failed on an error to the handshake, with only
\* the handshake command written.
C17_Witness ==
    /\ op = "enter"
    /\ pc = "idle"
    /\ exc = "ServerError"
    /\ Types(stdin) = <<"handshake">>

\* The object read in the wait loop has a type the loop does not know.
UnknownTag == result.type \notin {"message", "progress", "reply", "error"}

\* C18 as claimed: a message of an unknown type read in the wait loop makes
\* the call fail at once: nothing more is read and nothing is returned.
C18_AnyCookie ==
    (AwaitReply /\ UnknownTag)
        => (/\ pc' = "idle"
            /\ exc' /= "none"
            /\ result' = NoObject
            /\ stdout' = stdout)
C18_UnknownTagFails == [][C18_AnyCookie]_vars

\* C18 amended: a message of an unknown type that bears the cookie of the
\* call makes the call fail at once with the unknown-type error: nothing
\* more is read and nothing is returned; one that bears another cookie is
\* skipped and the wait goes on.
C18_OwnCookie ==
    /\ (AwaitReply /\ Awaited /\ result.cookie = cookie /\ UnknownTag)
          => (/\ pc' = "idle"
              /\ exc' = "UnknownType"
              /\ result' = NoObject
              /\ stdout' = stdout
              /\ output' = output)
    /\ (AwaitReply /\ Awaited /\ result.cookie /= cookie /\ UnknownTag)
          => (pc' = "get_next_object" /\ exc' = exc /\ output' = output)
    /\ exc' = "UnknownType" => (exc = "UnknownType" \/ (AwaitReply /\ UnknownTag))
C18_OwnUnknownTagFails == [][C18_OwnCookie]_vars

\* C18 witness: a call failed on a message of an unknown type.
C18_Witness == pc = "idle" /\ exc = "UnknownType" /\ op \in {"call", "configure", "enter"}

\* The session was released: a subprocess had been spawned, __exit__ has
\* run and the handle is cleared.
Closed == scope = "exited" /\ server = None /\ procs /= <<>>

\* C19: once released, the object stays released whatever is called on it:
\* no subprocess is spawned and no command is written.
C19_Stays ==
    Closed => (/\ Closed'
               /\ procs' = procs
               /\ stdin' = <<>>)
C19_ClosedIsTerminal == [][C19_Stays]_vars

\* A command was written and its call is waiting for the terminal message.
Waiting ==
    /\ pc \in {"get_next_object", "scan_header", "read_body", "await"}
    /\ cookie \in outstanding

\* The subprocess has written, whole, a reply or an error that bears the
\* cookie of the call, and the client has not read it yet.
TerminalEmitted ==
    \E i \in 1..(Len(stdout) - 2) :
        SubSeq(stdout, i, i + 2) \in
            {Frame([type |-> "reply", cookie |-> cookie]),
             Frame([type |-> "error", cookie |-> cookie, errorMessage |-> "failed"])}

\* C20: once the subprocess has written the terminal message of the call,
\* or has exited, the call comes to its end: it returns or it fails; the
\* wait loop does not go on forever.
C20_Completes ==
    (Waiting /\ (TerminalEmitted \/ procs[server].state = "exited"))
        ~> (pc \in {"returned", "idle"})

\* C20 witness: the terminal message of a call is in the pipe, behind
\* notifications already read, and the call is about to read it.
C20_Witness ==
    /\ Waiting
    /\ TerminalEmitted
    /\ pc = "scan_header"
    /\ output /= <<>>
    /\ op = "call"

====
